---- MODULE Spec2Model ----
(***************************************************************************)
(* Model of py-polars/polars/convert.py: the construction entry points     *)
(* from_dict, from_dicts, from_records, from_numpy, from_arrow and          *)
(* from_pandas.  The entry points themselves are translated from           *)
(* convert.py; the collaborators they forward to (DataFrame._from_* and    *)
(* Series._from_*, which live in polars.internals) are modelled from the   *)
(* design description: orientation resolution, type inference and schema   *)
(* reconciliation.                                                         *)
(*                                                                         *)
(* One behaviour is one call: Init is the state before the call, each      *)
(* action is one entry point applied to inputs drawn from bounded sets,    *)
(* and the state after it records the call, the collaborators it invoked   *)
(* and what came back.                                                     *)
(***************************************************************************)
EXTENDS Integers, Sequences, FiniteSets, TLC

VARIABLES pc, call, invoked, result

vars == <<pc, call, invoked, result>>

(***************************************************************************)
(* Bounds of the model.                                                    *)
(***************************************************************************)
\* longest column / most rows of a mapping-of-sequences or sequence-of-mappings
MaxRows == 2
\* largest extent of either dimension of a two-dimensional input
MaxDim == 3
\* most chunks of a foreign chunked array or table
MaxChunks == 2

(***************************************************************************)
(* Python's None for an optional parameter is the empty tuple, a supplied  *)
(* value x is <<x>>.                                                       *)
(***************************************************************************)
None == <<>>

Some(x) == <<x>>

IsNone(o) == o = <<>>

Get(o) == o[1]

Range(s) == {s[i] : i \in 1..Len(s)}

Min(a, b) == IF a < b THEN a ELSE b

(***************************************************************************)
(* Raw values.  A raw value has a kind and a payload; the payload of a     *)
(* null is 0.                                                              *)
(***************************************************************************)
Null == [k |-> "null", v |-> 0]

IntV(n) == [k |-> "int", v |-> n]

FloatV(n) == [k |-> "float", v |-> n]

StrV(n) == [k |-> "str", v |-> n]

ListV(n) == [k |-> "list", v |-> n]

\* a field of a schema or of an override mapping: a name and a type; the type
\* "None" is an undeclared type
Field(n, t) == [name |-> n, dtype |-> t]

FieldNames(fs) == [i \in 1..Len(fs) |-> fs[i].name]

(***************************************************************************)
(* Results.  A call returns a Table, returns a Column, or fails with an    *)
(* error; a failed call returns nothing else.                              *)
(***************************************************************************)
\* the error kind of the dispatcher: convert.py raises ValueError
UnsupportedInputType == "ValueError"

\* detail names what the error is about (a runtime type, an override key, a
\* column); col and row place an inference conflict; orient is the orientation
\* resolved before the failure ("none" where none is resolved)
Error(err, detail, col, row, orient) ==
    [kind |-> "Error", error |-> err, detail |-> detail, col |-> col,
     row |-> row, orient |-> orient]

\* before the call, and what a call that neither returns a value nor fails
\* would leave
NoResult == [kind |-> "None"]

Table(names, dtypes, columns, inferred, orient, nchunks, nulls) ==
    [kind |-> "Table", names |-> names, dtypes |-> dtypes, columns |-> columns,
     inferred |-> inferred, orient |-> orient, nchunks |-> nchunks,
     nulls |-> nulls]

Column(name, dtype, nchunks, nulls) ==
    [kind |-> "Column", name |-> name, dtype |-> dtype, nchunks |-> nchunks,
     nulls |-> nulls]

\* one invocation of a collaborator of polars.internals and what it returned
Invoke(adapter, args, res) ==
    [invoked |-> <<[adapter |-> adapter, args |-> args]>>, result |-> res]

\* the dispatcher's own failure: no collaborator is invoked
Raise(err, detail) ==
    [invoked |-> <<>>, result |-> Error(err, detail, 0, 0, "none")]

(***************************************************************************)
(* Type Inference Engine.  Scans the leading values of a raw column, skips *)
(* nulls, and widens integer -> float -> text; a nested sequence beside a  *)
(* scalar has no common type.                                              *)
(***************************************************************************)
KindType(k) ==
    CASE k = "int" -> "Int64"
      [] k = "float" -> "Float64"
      [] k = "str" -> "Utf8"
      [] OTHER -> "List"

Supertype(t1, t2) ==
    IF t1 = "Unknown" THEN t2
    ELSE IF t1 = t2 THEN t1
    ELSE IF {t1, t2} = {"Int64", "Float64"} THEN "Float64"
    ELSE IF "List" \notin {t1, t2} THEN "Utf8"
    ELSE "Conflict"

Inferred(t) == [ok |-> TRUE, dtype |-> t, row |-> 0]

InferenceFailure(i) == [ok |-> FALSE, dtype |-> "Conflict", row |-> i]

RECURSIVE InferScan(_, _, _, _)
InferScan(vals, limit, i, acc) ==
    IF i > limit \/ i > Len(vals) THEN Inferred(acc)
    ELSE IF vals[i].k = "null" THEN InferScan(vals, limit, i + 1, acc)
    ELSE LET t == Supertype(acc, KindType(vals[i].k))
         IN  IF t = "Conflict" THEN InferenceFailure(i)
             ELSE InferScan(vals, limit, i + 1, t)

\* infer_schema_length None scans every value
InferType(vals, infer_schema_length) ==
    InferScan(vals,
              IF IsNone(infer_schema_length) THEN Len(vals)
              ELSE Get(infer_schema_length),
              1, "Unknown")

\* a column handed to the reconciler: raw values to infer from (dtype "None")
\* or an already typed buffer
RawColumn(vals) == [vals |-> vals, dtype |-> "None"]

TypedColumn(vals, t) == [vals |-> vals, dtype |-> t]

InferColumn(c, infer_schema_length) ==
    IF c.dtype # "None" THEN Inferred(c.dtype)
    ELSE InferType(c.vals, infer_schema_length)

(***************************************************************************)
(* Orientation Resolver.  dim0 is the number of top-level sequences, dim1  *)
(* the length of each.  "col": each top-level sequence is one column.      *)
(***************************************************************************)
ResolveOrientation(orient, columns, dim0, dim1) ==
    IF ~IsNone(orient) THEN Get(orient)
    ELSE IF ~IsNone(columns)
            /\ (Len(Get(columns)) = dim0) # (Len(Get(columns)) = dim1)
         THEN IF Len(Get(columns)) = dim0 THEN "col" ELSE "row"
    ELSE "col"

Transpose(data) ==
    [j \in 1..Len(data[1]) |-> [i \in 1..Len(data) |-> data[i][j]]]

(***************************************************************************)
(* Schema Reconciler.  cols are the adapter's columns under the adapter's  *)
(* names names0; declared is an optional DeclaredSchema (a sequence of     *)
(* fields), overrides a sequence of fields.                                *)
(***************************************************************************)
Placeholders ==
    <<"column_0", "column_1", "column_2", "column_3", "column_4", "column_5">>

PlaceholderNames(n) == [i \in 1..n |-> Placeholders[i]]

\* the type a mapping gives a name, "None" when it gives none
TypeOf(fields, name) ==
    IF \E i \in 1..Len(fields) : fields[i].name = name
    THEN LET i == CHOOSE i \in 1..Len(fields) : fields[i].name = name
         IN  fields[i].dtype
    ELSE "None"

UnknownKeys(overrides, names) ==
    {i \in 1..Len(overrides) : overrides[i].name \notin Range(names)}

CountNulls(cols) ==
    Cardinality(UNION {{<<i, j>> : j \in {j \in 1..Len(cols[i].vals) :
                                            cols[i].vals[j].k = "null"}} :
                       i \in 1..Len(cols)})

Reconcile(names0, cols, declared, overrides, infer_schema_length, orient, nchunks, nulls) ==
    IF ~IsNone(declared) /\ Len(Get(declared)) # Len(cols)
    THEN Error("SchemaLengthMismatch", "columns", 0, 0, orient)
    ELSE
    LET names == IF IsNone(declared) THEN names0 ELSE FieldNames(Get(declared))
        bad == UnknownKeys(overrides, names)
    IN  IF bad # {}
        THEN Error("UnknownOverrideColumn",
                   overrides[CHOOSE i \in bad : \A j \in bad : i <= j].name, 0, 0,
                   orient)
        ELSE
        LET given == [i \in 1..Len(cols) |->
                        IF TypeOf(overrides, names[i]) # "None"
                        THEN TypeOf(overrides, names[i])
                        ELSE IF IsNone(declared) THEN "None"
                        ELSE Get(declared)[i].dtype]
            inferred == [i \in 1..Len(cols) |->
                        IF given[i] # "None" THEN Inferred("Bypassed")
                        ELSE InferColumn(cols[i], infer_schema_length)]
            failed == {i \in 1..Len(cols) : ~inferred[i].ok}
        IN  IF failed # {}
            THEN LET i == CHOOSE i \in failed : \A j \in failed : i <= j
                 IN  Error("SchemaInferenceError", names[i], i, inferred[i].row,
                           orient)
            ELSE Table(names,
                       [i \in 1..Len(cols) |->
                          IF given[i] # "None" THEN given[i] ELSE inferred[i].dtype],
                       [i \in 1..Len(cols) |-> cols[i].vals],
                       [i \in 1..Len(cols) |-> inferred[i].dtype],
                       orient, nchunks, nulls)

(***************************************************************************)
(* Foreign values: what a caller may hand to from_arrow or from_pandas.    *)
(* type is the runtime type; names and dtypes describe the columns of a    *)
(* table or frame (a single array, series or index has one dtype, and a    *)
(* series or index has at most one name); nans counts NaN values.          *)
(***************************************************************************)
Foreign(type, names, dtypes, nchunks, nans) ==
    [type |-> type, names |-> names, dtypes |-> dtypes, nchunks |-> nchunks,
     nans |-> nans]

TypedColumns(dtypes) == [i \in 1..Len(dtypes) |-> TypedColumn(<<>>, dtypes[i])]

(***************************************************************************)
(* Source adapters for the foreign formats (polars.internals).             *)
(***************************************************************************)
DataFrame_from_arrow(a, rechunk, columns, schema_overrides) ==
    Reconcile(a.names, TypedColumns(a.dtypes), columns, schema_overrides, None,
              "none", IF rechunk THEN 1 ELSE a.nchunks, 0)

Series_from_arrow(name, values, rechunk) ==
    Column(name, values.dtypes[1], IF rechunk THEN 1 ELSE values.nchunks, 0)

DataFrame_from_pandas(df, rechunk, nan_to_none, schema_overrides) ==
    Reconcile(df.names, TypedColumns(df.dtypes), None, schema_overrides, None,
              "none", 1, IF nan_to_none THEN df.nans ELSE 0)

\* a named pandas Series keeps its name; the name argument is the default
Series_from_pandas(name, values, nan_to_none) ==
    Column(IF values.names = <<>> THEN name ELSE values.names[1],
           values.dtypes[1], 1, IF nan_to_none THEN values.nans ELSE 0)

(***************************************************************************)
(* convert.py: from_arrow and from_pandas.                                 *)
(***************************************************************************)
\* mutant: only pyarrow.Array is taken for a single column
from_arrow_ArrayOnly(a, rechunk, schema, schema_overrides) ==
    IF a.type = "pyarrow.Table"
    THEN Invoke("DataFrame._from_arrow",
                [a |-> a, rechunk |-> rechunk, columns |-> schema,
                 schema_overrides |-> schema_overrides],
                DataFrame_from_arrow(a, rechunk, schema, schema_overrides))
    ELSE IF a.type = "pyarrow.Array"
    THEN Invoke("Series._from_arrow",
                [name |-> "", values |-> a, rechunk |-> rechunk],
                Series_from_arrow("", a, rechunk))
    ELSE Raise(UnsupportedInputType, a.type)

\* mutant: the single-column path checks schema_overrides against its column
from_arrow_ValidatingOverrides(a, rechunk, schema, schema_overrides) ==
    IF a.type = "pyarrow.Table"
    THEN Invoke("DataFrame._from_arrow",
                [a |-> a, rechunk |-> rechunk, columns |-> schema,
                 schema_overrides |-> schema_overrides],
                DataFrame_from_arrow(a, rechunk, schema, schema_overrides))
    ELSE IF a.type \in {"pyarrow.Array", "pyarrow.ChunkedArray"}
    THEN Invoke("Series._from_arrow",
                [name |-> "", values |-> a, rechunk |-> rechunk],
                IF UnknownKeys(schema_overrides, <<"">>) # {}
                THEN Error("UnknownOverrideColumn", schema_overrides[1].name,
                           0, 0, "none")
                ELSE Series_from_arrow("", a, rechunk))
    ELSE Raise(UnsupportedInputType, a.type)

from_arrow(a, rechunk, schema, schema_overrides) ==
    IF a.type = "pyarrow.Table"
    THEN Invoke("DataFrame._from_arrow",
                [a |-> a, rechunk |-> rechunk, columns |-> schema,
                 schema_overrides |-> schema_overrides],
                DataFrame_from_arrow(a, rechunk, schema, schema_overrides))
    ELSE IF a.type \in {"pyarrow.Array", "pyarrow.ChunkedArray"}
    THEN Invoke("Series._from_arrow",
                [name |-> "", values |-> a, rechunk |-> rechunk],
                Series_from_arrow("", a, rechunk))
    ELSE Raise(UnsupportedInputType, a.type)

\* mutant: no else branch, an unsupported value falls through and None comes back
from_pandas_NoElse(df, rechunk, nan_to_none, schema_overrides) ==
    IF df.type \in {"pandas.Series", "pandas.DatetimeIndex"}
    THEN Invoke("Series._from_pandas",
                [name |-> "", values |-> df, nan_to_none |-> nan_to_none],
                Series_from_pandas("", df, nan_to_none))
    ELSE IF df.type = "pandas.DataFrame"
    THEN Invoke("DataFrame._from_pandas",
                [df |-> df, rechunk |-> rechunk, nan_to_none |-> nan_to_none,
                 schema_overrides |-> schema_overrides],
                DataFrame_from_pandas(df, rechunk, nan_to_none, schema_overrides))
    ELSE [invoked |-> <<>>, result |-> NoResult]

from_pandas(df, rechunk, nan_to_none, schema_overrides) ==
    IF df.type \in {"pandas.Series", "pandas.DatetimeIndex"}
    THEN Invoke("Series._from_pandas",
                [name |-> "", values |-> df, nan_to_none |-> nan_to_none],
                Series_from_pandas("", df, nan_to_none))
    ELSE IF df.type = "pandas.DataFrame"
    THEN Invoke("DataFrame._from_pandas",
                [df |-> df, rechunk |-> rechunk, nan_to_none |-> nan_to_none,
                 schema_overrides |-> schema_overrides],
                DataFrame_from_pandas(df, rechunk, nan_to_none, schema_overrides))
    ELSE Raise(UnsupportedInputType, df.type)

(***************************************************************************)
(* Source adapters for native data (polars.internals).                     *)
(***************************************************************************)
RawColumns(seqs) == [i \in 1..Len(seqs) |-> RawColumn(seqs[i])]

\* mapping-of-sequences: data is a sequence of [name, vals], columns explicit
DataFrame_from_dict(data, schema, schema_overrides) ==
    LET cols == [i \in 1..Len(data) |-> RawColumn(data[i].vals)]
    IN  Reconcile(FieldNames(data), cols, schema, schema_overrides, None,
                  "none", 1, CountNulls(cols))

\* sequence-of-sequences: orientation is resolved first
DataFrame_from_records(data, columns, schema_overrides, orient, infer_schema_length) ==
    LET o == ResolveOrientation(orient, columns, Len(data), Len(data[1]))
        cols == RawColumns(IF o = "col" THEN data ELSE Transpose(data))
    IN  Reconcile(PlaceholderNames(Len(cols)), cols, columns, schema_overrides,
                  infer_schema_length, o, 1, CountNulls(cols))

\* two-dimensional numeric buffer: the columns carry the buffer's dtype
DataFrame_from_numpy(data, columns, orient, schema_overrides) ==
    LET o == ResolveOrientation(orient, columns, Len(data.data), Len(data.data[1]))
        seqs == IF o = "col" THEN data.data ELSE Transpose(data.data)
        cols == [i \in 1..Len(seqs) |-> TypedColumn(seqs[i], data.dtype)]
    IN  Reconcile(PlaceholderNames(Len(cols)), cols, columns, schema_overrides,
                  None, o, 1, 0)

\* sequence-of-mappings: a row is a sequence of [name, val]; the column set is
\* the union of the keys of the rows in the scan window, in order of appearance
RECURSIVE AppendNew(_, _, _)
AppendNew(acc, row, j) ==
    IF j > Len(row) THEN acc
    ELSE AppendNew(IF row[j].name \in Range(acc) THEN acc
                   ELSE Append(acc, row[j].name), row, j + 1)

RECURSIVE UnionKeys(_, _, _, _)
UnionKeys(rows, limit, i, acc) ==
    IF i > limit \/ i > Len(rows) THEN acc
    ELSE UnionKeys(rows, limit, i + 1, AppendNew(acc, rows[i], 1))

ValueAt(row, key) ==
    IF \E j \in 1..Len(row) : row[j].name = key
    THEN row[CHOOSE j \in 1..Len(row) : row[j].name = key].val
    ELSE Null

\* from_dicts' documented use of schema_overrides (the examples of its
\* docstring): the i-th entry names the i-th column and, unless its type is
\* Unknown, types it; an entry past the last column adds an all-null column
ApplyDictsOverrides(keys, vals, schema_overrides, infer_schema_length, nrows) ==
    LET n == IF Len(keys) > Len(schema_overrides) THEN Len(keys)
             ELSE Len(schema_overrides)
        names == [i \in 1..n |-> IF i <= Len(schema_overrides)
                                 THEN schema_overrides[i].name ELSE keys[i]]
        cols == [i \in 1..n |-> IF i <= Len(keys) THEN vals[i]
                                ELSE [r \in 1..nrows |-> Null]]
        given == [i \in 1..n |->
                    IF i <= Len(schema_overrides)
                       /\ schema_overrides[i].dtype # "Unknown"
                    THEN schema_overrides[i].dtype ELSE "None"]
        inferred == [i \in 1..n |->
                    IF given[i] # "None" THEN Inferred("Bypassed")
                    ELSE InferType(cols[i], infer_schema_length)]
        failed == {i \in 1..n : ~inferred[i].ok}
    IN  IF failed # {}
        THEN LET i == CHOOSE i \in failed : \A j \in failed : i <= j
             IN  Error("SchemaInferenceError", names[i], i, inferred[i].row,
                       "none")
        ELSE Table(names,
                   [i \in 1..n |-> IF given[i] # "None" THEN given[i]
                                   ELSE inferred[i].dtype],
                   cols, [i \in 1..n |-> inferred[i].dtype], "none", 1,
                   CountNulls(RawColumns(cols)))

DataFrame_from_dicts(data, infer_schema_length, schema_overrides) ==
    LET keys == UnionKeys(data,
                          IF IsNone(infer_schema_length) THEN Len(data)
                          ELSE Get(infer_schema_length), 1, <<>>)
        vals == [i \in 1..Len(keys) |->
                    [r \in 1..Len(data) |-> ValueAt(data[r], keys[i])]]
    IN  ApplyDictsOverrides(keys, vals, schema_overrides, infer_schema_length,
                            Len(data))

(***************************************************************************)
(* convert.py: from_dict, from_dicts, from_records and from_numpy.  Each   *)
(* forwards its arguments to one collaborator.  (from_dicts also accepts   *)
(* schema_overrides under its deprecated keyword schema; the value is the  *)
(* same parameter.)                                                        *)
(***************************************************************************)
\* mutant: schema_overrides is not forwarded
from_dict_OverridesDropped(data, columns, schema_overrides) ==
    Invoke("DataFrame._from_dict",
           [data |-> data, schema |-> columns, schema_overrides |-> <<>>],
           DataFrame_from_dict(data, columns, <<>>))

\* mutant: columns is not forwarded
from_dict_ColumnsDropped(data, columns, schema_overrides) ==
    Invoke("DataFrame._from_dict",
           [data |-> data, schema |-> None,
            schema_overrides |-> schema_overrides],
           DataFrame_from_dict(data, None, schema_overrides))

from_dict(data, columns, schema_overrides) ==
    Invoke("DataFrame._from_dict",
           [data |-> data, schema |-> columns,
            schema_overrides |-> schema_overrides],
           DataFrame_from_dict(data, columns, schema_overrides))

\* mutant: infer_schema_length is not forwarded, every row is scanned
from_dicts_ScanAll(dicts, infer_schema_length, schema_overrides) ==
    Invoke("DataFrame._from_dicts",
           [data |-> dicts, infer_schema_length |-> None,
            schema_overrides |-> schema_overrides],
           DataFrame_from_dicts(dicts, None, schema_overrides))

from_dicts(dicts, infer_schema_length, schema_overrides) ==
    Invoke("DataFrame._from_dicts",
           [data |-> dicts, infer_schema_length |-> infer_schema_length,
            schema_overrides |-> schema_overrides],
           DataFrame_from_dicts(dicts, infer_schema_length, schema_overrides))

\* mutant: columns is not forwarded
from_records_ColumnsDropped(data, columns, orient, infer_schema_length, schema_overrides) ==
    Invoke("DataFrame._from_records",
           [data |-> data, columns |-> None,
            schema_overrides |-> schema_overrides, orient |-> orient,
            infer_schema_length |-> infer_schema_length],
           DataFrame_from_records(data, None, schema_overrides, orient,
                                  infer_schema_length))

\* mutant: infer_schema_length is not forwarded, every value is scanned
from_records_ScanAll(data, columns, orient, infer_schema_length, schema_overrides) ==
    Invoke("DataFrame._from_records",
           [data |-> data, columns |-> columns,
            schema_overrides |-> schema_overrides, orient |-> orient,
            infer_schema_length |-> None],
           DataFrame_from_records(data, columns, schema_overrides, orient, None))

from_records(data, columns, orient, infer_schema_length, schema_overrides) ==
    Invoke("DataFrame._from_records",
           [data |-> data, columns |-> columns,
            schema_overrides |-> schema_overrides, orient |-> orient,
            infer_schema_length |-> infer_schema_length],
           DataFrame_from_records(data, columns, schema_overrides, orient,
                                  infer_schema_length))

\* mutant: orient is not forwarded
from_numpy_OrientDropped(data, columns, orient, schema_overrides) ==
    Invoke("DataFrame._from_numpy",
           [data |-> data, columns |-> columns, orient |-> None,
            schema_overrides |-> schema_overrides],
           DataFrame_from_numpy(data, columns, None, schema_overrides))

\* mutant: schema_overrides is not forwarded
from_numpy_OverridesDropped(data, columns, orient, schema_overrides) ==
    Invoke("DataFrame._from_numpy",
           [data |-> data, columns |-> columns, orient |-> orient,
            schema_overrides |-> <<>>],
           DataFrame_from_numpy(data, columns, orient, <<>>))

from_numpy(data, columns, orient, schema_overrides) ==
    Invoke("DataFrame._from_numpy",
           [data |-> data, columns |-> columns, orient |-> orient,
            schema_overrides |-> schema_overrides],
           DataFrame_from_numpy(data, columns, orient, schema_overrides))


(***************************************************************************)
(* Inputs.                                                                 *)
(***************************************************************************)
NameLists == {<<"a">>, <<"a", "b">>}

DtypeLists(n, types) == [1..n -> types]

ArrowTables ==
    {Foreign("pyarrow.Table", ns, ds, c, 0) :
        <<ns, ds, c>> \in
            UNION {{ns} \X DtypeLists(Len(ns), {"Int64", "Utf8"}) \X (1..MaxChunks) :
                   ns \in NameLists}}

ArrowArrays ==
    {Foreign("pyarrow.Array", <<>>, <<d>>, 1, 0) : d \in {"Int64", "Utf8"}}
    \cup {Foreign("pyarrow.ChunkedArray", <<>>, <<d>>, c, 0) :
            <<d, c>> \in {"Int64", "Utf8"} \X (1..MaxChunks)}

\* values of a runtime type the entry point does not accept
Others(types) == {Foreign(t, <<>>, <<>>, 0, 0) : t \in types}

ArrowInputs ==
    ArrowTables \cup ArrowArrays
    \cup Others({"list", "dict", "NoneType", "pandas.DataFrame", "numpy.ndarray"})

PandasFrames ==
    {Foreign("pandas.DataFrame", ns, ds, 1, n) :
        <<ns, ds, n>> \in
            UNION {{ns} \X DtypeLists(Len(ns), {"Int64", "Float64"}) \X {0, 1} :
                   ns \in NameLists}}

PandasSeries ==
    {Foreign("pandas.Series", ns, <<d>>, 1, n) :
        <<ns, d, n>> \in {<<>>, <<"pd">>} \X {"Int64", "Float64"} \X {0, 1}}
    \cup {Foreign("pandas.DatetimeIndex", ns, <<"Datetime">>, 1, 0) :
            ns \in {<<>>, <<"pd">>}}

PandasInputs ==
    PandasFrames \cup PandasSeries
    \cup Others({"list", "dict", "NoneType", "pyarrow.Table", "numpy.ndarray"})

\* declared schemas: names only, or (name, type) pairs
Schemas ==
    {None,
     Some(<<Field("a", "None")>>),
     Some(<<Field("x", "None"), Field("y", "None")>>),
     Some(<<Field("x", "Int32"), Field("y", "None")>>),
     Some(<<Field("a", "None"), Field("b", "None"), Field("c", "None")>>)}

\* schema_overrides; None and the empty mapping are both <<>>
Overrides ==
    {<<>>,
     <<Field("a", "Float64")>>,
     <<Field("x", "Utf8")>>,
     <<Field("nonexistent", "Int32")>>,
     <<Field("a", "Float64"), Field("nonexistent", "Int32")>>}

\* sequences of length 0..n over S
SeqsUpTo(S, n) == UNION {[1..k -> S] : k \in 0..n}

\* mappings of sequences: one or two equal-length columns
DictValues == {Null, IntV(1), FloatV(1)}

DictInputs ==
    UNION {{[i \in 1..Len(ns) |-> [name |-> ns[i], vals |-> vs[i]]] :
               vs \in [1..Len(ns) -> [1..n -> DictValues]]} :
           <<ns, n>> \in NameLists \X (0..MaxRows)}

\* rows of a sequence of mappings: key "a", then possibly key "b"
RowValues == {Null, IntV(1), FloatV(1), StrV(1), ListV(1)}

Rows ==
    {<<[name |-> "a", val |-> v]>> : v \in RowValues}
    \cup {<<[name |-> "a", val |-> v], [name |-> "b", val |-> w]>> :
            <<v, w>> \in RowValues \X {Null, IntV(2)}}

\* one to MaxRows rows
DictsInputs == UNION {[1..k -> Rows] : k \in 1..MaxRows}

ScanLimits(n) == {None} \cup {Some(k) : k \in 1..n}

\* the override mappings of from_dicts' docstring, and two on present names
DictsOverrides ==
    {<<>>,
     <<Field("c", "Int32")>>,
     <<Field("a", "Unknown"), Field("b", "Unknown"), Field("c", "Int32")>>,
     <<Field("a", "Float64")>>,
     <<Field("a", "Unknown")>>}

\* rectangular two-dimensional data: r top-level sequences of length c holding
\* 1, 2, ... in reading order; a fill other than "ints" replaces the first or
\* the last top-level sequence
Fills == {"ints", "head_null", "tail_str", "tail_list"}

Matrix(r, c, fill) ==
    [i \in 1..r |-> [j \in 1..c |->
        IF fill = "head_null" /\ i = 1 THEN Null
        ELSE IF fill = "tail_str" /\ i = r THEN StrV((i - 1) * c + j)
        ELSE IF fill = "tail_list" /\ i = r THEN ListV((i - 1) * c + j)
        ELSE IntV((i - 1) * c + j)]]

RecordsInputs ==
    {Matrix(r, c, f) : <<r, c, f>> \in (1..MaxDim) \X (1..MaxDim) \X Fills}

NumpyInputs ==
    {[type |-> "numpy.ndarray", dtype |-> d, data |-> Matrix(r, c, "ints")] :
        <<r, c, d>> \in (1..MaxDim) \X (1..MaxDim) \X {"Int64", "Float64"}}

AllNames == <<"a", "b", "c", "d", "e", "f">>

\* columns: None, or 1..MaxDim+1 names
ColumnLists ==
    {None} \cup {Some([i \in 1..n |-> Field(AllNames[i], "None")]) :
                    n \in 1..(MaxDim + 1)}

Orients == {None, Some("row"), Some("col")}

RecordsOverrides ==
    {<<>>,
     <<Field("a", "Float64")>>,
     <<Field("column_0", "Float64")>>,
     <<Field("nonexistent", "Int32")>>}


(***************************************************************************)
(* The state machine: one call of one entry point.                         *)
(***************************************************************************)
Init ==
    /\ pc = "ready"
    /\ call = [fn |-> "none"]
    /\ invoked = <<>>
    /\ result = NoResult

Returns(fn, args, r) ==
    /\ pc' = "returned"
    /\ call' = [fn |-> fn, args |-> args]
    /\ invoked' = r.invoked
    /\ result' = r.result

FromArrow ==
    /\ pc = "ready"
    /\ \E a \in ArrowInputs, rechunk \in BOOLEAN, schema \in Schemas,
          schema_overrides \in Overrides :
          Returns("from_arrow",
                  [a |-> a, rechunk |-> rechunk, schema |-> schema,
                   schema_overrides |-> schema_overrides],
                  from_arrow(a, rechunk, schema, schema_overrides))

FromPandas ==
    /\ pc = "ready"
    /\ \E df \in PandasInputs, rechunk \in BOOLEAN, nan_to_none \in BOOLEAN,
          schema_overrides \in Overrides :
          Returns("from_pandas",
                  [df |-> df, rechunk |-> rechunk, nan_to_none |-> nan_to_none,
                   schema_overrides |-> schema_overrides],
                  from_pandas(df, rechunk, nan_to_none, schema_overrides))

FromDict ==
    /\ pc = "ready"
    /\ \E data \in DictInputs, columns \in Schemas, schema_overrides \in Overrides :
          Returns("from_dict",
                  [data |-> data, columns |-> columns,
                   schema_overrides |-> schema_overrides],
                  from_dict(data, columns, schema_overrides))

FromDicts ==
    /\ pc = "ready"
    /\ \E dicts \in DictsInputs, infer_schema_length \in ScanLimits(MaxRows),
          schema_overrides \in DictsOverrides :
          Returns("from_dicts",
                  [dicts |-> dicts, infer_schema_length |-> infer_schema_length,
                   schema_overrides |-> schema_overrides],
                  from_dicts(dicts, infer_schema_length, schema_overrides))

FromRecords ==
    /\ pc = "ready"
    /\ \E data \in RecordsInputs, columns \in ColumnLists, orient \in Orients,
          infer_schema_length \in ScanLimits(MaxDim),
          schema_overrides \in RecordsOverrides :
          Returns("from_records",
                  [data |-> data, columns |-> columns, orient |-> orient,
                   infer_schema_length |-> infer_schema_length,
                   schema_overrides |-> schema_overrides],
                  from_records(data, columns, orient, infer_schema_length,
                               schema_overrides))

FromNumpy ==
    /\ pc = "ready"
    /\ \E data \in NumpyInputs, columns \in ColumnLists, orient \in Orients,
          schema_overrides \in RecordsOverrides :
          Returns("from_numpy",
                  [data |-> data, columns |-> columns, orient |-> orient,
                   schema_overrides |-> schema_overrides],
                  from_numpy(data, columns, orient, schema_overrides))


Next ==
    \/ FromDict
    \/ FromDicts
    \/ FromRecords
    \/ FromNumpy
    \/ FromArrow
    \/ FromPandas

Spec == Init /\ [][Next]_vars

(***************************************************************************)
(* Properties.                                                             *)
(***************************************************************************)
Called(fn) == pc = "returned" /\ call.fn = fn

Failed == result.kind = "Error"

FailedWith(err) == result.kind = "Error" /\ result.error = err

ArrowColumnTypes == {"pyarrow.Array", "pyarrow.ChunkedArray"}

PandasColumnTypes == {"pandas.Series", "pandas.DatetimeIndex"}

ArrowTablePath == Called("from_arrow") /\ call.args.a.type = "pyarrow.Table"

ArrowColumnPath == Called("from_arrow") /\ call.args.a.type \in ArrowColumnTypes

PandasTablePath == Called("from_pandas") /\ call.args.df.type = "pandas.DataFrame"

PandasColumnPath == Called("from_pandas") /\ call.args.df.type \in PandasColumnTypes

ArrowUnsupported ==
    Called("from_arrow")
    /\ call.args.a.type \notin ArrowColumnTypes \cup {"pyarrow.Table"}

PandasUnsupported ==
    Called("from_pandas")
    /\ call.args.df.type \notin PandasColumnTypes \cup {"pandas.DataFrame"}

\* exactly one collaborator was invoked, and it is `adapter`
OnlyInvoked(adapter) == Len(invoked) = 1 /\ invoked[1].adapter = adapter

\* C1: from_arrow and from_pandas forward a supported value to exactly one
\* adapter.  A whole table or frame goes to the table adapter, and what the
\* call returns is then a Table (a failure of that adapter is its own, never
\* the dispatcher's); an array, chunked array, series or date-index goes to the
\* column adapter, which is given the empty string as the name, and the call
\* returns a single Column.
C1_ExactlyOneAdapter ==
    /\ ArrowTablePath =>
          /\ OnlyInvoked("DataFrame._from_arrow")
          /\ result.kind \in {"Table", "Error"}
          /\ Failed => result.error # UnsupportedInputType
    /\ ArrowColumnPath =>
          /\ OnlyInvoked("Series._from_arrow")
          /\ invoked[1].args.name = ""
          /\ result.kind = "Column"
    /\ PandasTablePath =>
          /\ OnlyInvoked("DataFrame._from_pandas")
          /\ result.kind \in {"Table", "Error"}
          /\ Failed => result.error # UnsupportedInputType
    /\ PandasColumnPath =>
          /\ OnlyInvoked("Series._from_pandas")
          /\ invoked[1].args.name = ""
          /\ result.kind = "Column"

\* a chunked array converted without rechunking: one Column, named ""
C1_Witness ==
    /\ ArrowColumnPath
    /\ call.args.a.type = "pyarrow.ChunkedArray"
    /\ ~call.args.rechunk
    /\ result.kind = "Column"
    /\ result.name = ""
    /\ OnlyInvoked("Series._from_arrow")

\* C2: a value of a runtime type outside the accepted shapes makes the call
\* fail with UnsupportedInputType naming that runtime type; no adapter or
\* constructor is invoked and nothing is returned.
C2_UnsupportedInputFails ==
    /\ ArrowUnsupported =>
          /\ FailedWith(UnsupportedInputType)
          /\ result.detail = call.args.a.type
          /\ invoked = <<>>
    /\ PandasUnsupported =>
          /\ FailedWith(UnsupportedInputType)
          /\ result.detail = call.args.df.type
          /\ invoked = <<>>

\* from_pandas handed a pyarrow.Table
C2_Witness ==
    /\ PandasUnsupported
    /\ call.args.df.type = "pyarrow.Table"
    /\ FailedWith(UnsupportedInputType)
    /\ result.detail = "pyarrow.Table"

\* C10: on the single-column path the caller's schema and schema_overrides
\* (from_arrow), rechunk and schema_overrides (from_pandas) do not reach the
\* adapter: the outcome is the one of every other choice of them, it is a
\* Column, and an override is neither applied nor checked.
C10_ColumnPathDropsParameters ==
    /\ ArrowColumnPath =>
          /\ \A s \in Schemas, o \in Overrides :
                LET other == from_arrow(call.args.a, call.args.rechunk, s, o)
                IN  other.result = result /\ other.invoked = invoked
          /\ DOMAIN invoked[1].args = {"name", "values", "rechunk"}
          /\ result.kind = "Column"
          /\ result.dtype = call.args.a.dtypes[1]
    /\ PandasColumnPath =>
          /\ \A r \in BOOLEAN, o \in Overrides :
                LET other == from_pandas(call.args.df, r, call.args.nan_to_none, o)
                IN  other.result = result /\ other.invoked = invoked
          /\ DOMAIN invoked[1].args = {"name", "values", "nan_to_none"}
          /\ result.kind = "Column"
          /\ result.dtype = call.args.df.dtypes[1]

\* an array converted with a three-name schema and an override for a column
\* that does not exist: a Column all the same
C10_Witness ==
    /\ ArrowColumnPath
    /\ ~IsNone(call.args.schema)
    /\ Len(Get(call.args.schema)) = 3
    /\ \E i \in 1..Len(call.args.schema_overrides) :
          call.args.schema_overrides[i].name = "nonexistent"
    /\ result.kind = "Column"

TwoDimCall == Called("from_records") \/ Called("from_numpy")

\* the two-dimensional data of a from_records or from_numpy call
CallMatrix ==
    IF call.fn = "from_records" THEN call.args.data ELSE call.args.data.data

\* the number of top-level sequences, and the length of each
Dim0 == Len(CallMatrix)

Dim1 == Len(CallMatrix[1])

DeclaredCount == Len(Get(call.args.columns))

\* C3: for a two-dimensional input the resolved orientation is the explicit
\* one whenever one is given, whatever the declared schema; else, when a schema
\* is declared and exactly one dimension equals its length, the orientation
\* that makes the other dimension the row count; else column orientation.
\* An orientation is resolved for every shape, also when the call then fails.
C3_OrientationResolved ==
    TwoDimCall =>
        /\ result.kind \in {"Table", "Error"}
        /\ result.orient \in {"row", "col"}
        /\ ~IsNone(call.args.orient) => result.orient = Get(call.args.orient)
        /\ (IsNone(call.args.orient) /\ IsNone(call.args.columns)) =>
              result.orient = "col"
        /\ (IsNone(call.args.orient) /\ ~IsNone(call.args.columns)) =>
              /\ (DeclaredCount = Dim0 /\ DeclaredCount # Dim1) =>
                    result.orient = "col"
              /\ (DeclaredCount = Dim1 /\ DeclaredCount # Dim0) =>
                    result.orient = "row"
              /\ (DeclaredCount = Dim0) = (DeclaredCount = Dim1) =>
                    result.orient = "col"

\* three names for two sequences of three values, no explicit orientation:
\* the names match the inner dimension only, and row orientation is chosen
C3_Witness ==
    /\ Called("from_records")
    /\ IsNone(call.args.orient)
    /\ ~IsNone(call.args.columns)
    /\ Dim0 = 2 /\ Dim1 = 3 /\ DeclaredCount = 3
    /\ result.kind = "Table"
    /\ result.orient = "row"
    /\ Len(result.names) = 3

\* the call of from_records' docstring: rows=[[1,2,3],[4,5,6]], names a and b,
\* no orientation, no overrides
C4_Call ==
    /\ Called("from_records")
    /\ call.args.data = Matrix(2, 3, "ints")
    /\ call.args.columns = Some(<<Field("a", "None"), Field("b", "None")>>)
    /\ IsNone(call.args.orient)
    /\ call.args.schema_overrides = <<>>

\* a 3-row, 2-column table with a=[1,2,3] and b=[4,5,6]
C4_Table ==
    /\ result.kind = "Table"
    /\ result.names = <<"a", "b">>
    /\ result.columns = <<<<IntV(1), IntV(2), IntV(3)>>,
                          <<IntV(4), IntV(5), IntV(6)>>>>
    /\ result.dtypes = <<"Int64", "Int64">>

\* C4 as stated: that call resolves to row orientation and produces the table.
C4_Original == C4_Call => (result.orient = "row" /\ C4_Table)

\* C4 as amended: that call resolves to column orientation (each of the two
\* top-level sequences is one column) and produces the 3-row, 2-column table
\* a=[1,2,3], b=[4,5,6].
C4_ColumnOrientation == C4_Call => (result.orient = "col" /\ C4_Table)

C4_Witness == C4_Call /\ C4_Table /\ IsNone(call.args.infer_schema_length)

(***************************************************************************)
(* What a call asks for, read off its arguments.                           *)
(***************************************************************************)
\* the call builds a table: every entry point but the single-column paths
TableCall ==
    /\ pc = "returned"
    /\ \/ call.fn \in {"from_dict", "from_dicts", "from_records", "from_numpy"}
       \/ ArrowTablePath
       \/ PandasTablePath

ColumnCall == ArrowColumnPath \/ PandasColumnPath

\* the DeclaredSchema of the call, None where the entry point takes none
CallDeclared ==
    CASE call.fn \in {"from_dict", "from_records", "from_numpy"} -> call.args.columns
      [] call.fn = "from_arrow" -> call.args.schema
      [] OTHER -> None

CallScanLimit ==
    IF call.fn \in {"from_dicts", "from_records"}
    THEN call.args.infer_schema_length ELSE None

\* the two-dimensional data as columns, under the orientation resolved
OrientedColumns ==
    IF result.orient = "col" THEN CallMatrix ELSE Transpose(CallMatrix)

\* the names the data itself carries: mapping keys, the keys of the scanned
\* rows, placeholders, or the names of the foreign table
AdapterNames ==
    CASE call.fn = "from_dict" -> FieldNames(call.args.data)
      [] call.fn = "from_dicts" ->
            UnionKeys(call.args.dicts,
                      IF IsNone(CallScanLimit) THEN Len(call.args.dicts)
                      ELSE Get(CallScanLimit), 1, <<>>)
      [] call.fn \in {"from_records", "from_numpy"} ->
            PlaceholderNames(Len(OrientedColumns))
      [] call.fn = "from_arrow" -> call.args.a.names
      [] OTHER -> call.args.df.names

\* the raw values of the i-th column of the data
AdapterValues(i) ==
    CASE call.fn = "from_dict" -> call.args.data[i].vals
      [] call.fn = "from_dicts" ->
            [r \in 1..Len(call.args.dicts) |->
                ValueAt(call.args.dicts[r], AdapterNames[i])]
      [] call.fn \in {"from_records", "from_numpy"} -> OrientedColumns[i]
      [] OTHER -> <<>>

\* the number of columns actually present in the data
ColumnCount == Len(AdapterNames)

\* the adapter-produced names: the declared names where a schema is declared
ProducedNames ==
    IF IsNone(CallDeclared) THEN AdapterNames ELSE FieldNames(Get(CallDeclared))

\* the type the data gives its i-th column without any declaration
SourceType(i) ==
    CASE call.fn \in {"from_dict", "from_dicts", "from_records"} ->
            InferType(AdapterValues(i), CallScanLimit).dtype
      [] call.fn = "from_numpy" -> call.args.data.dtype
      [] call.fn = "from_arrow" -> call.args.a.dtypes[i]
      [] OTHER -> call.args.df.dtypes[i]

DeclaredType(i) ==
    IF IsNone(CallDeclared) THEN "None" ELSE Get(CallDeclared)[i].dtype

\* the override for the i-th column; the type Unknown asks for the inferred type
OverrideType(i) ==
    IF TypeOf(call.args.schema_overrides, ProducedNames[i]) = "Unknown" THEN "None"
    ELSE TypeOf(call.args.schema_overrides, ProducedNames[i])

\* override > declared > inferred
ExpectedType(i) ==
    IF OverrideType(i) # "None" THEN OverrideType(i)
    ELSE IF DeclaredType(i) # "None" THEN DeclaredType(i)
    ELSE SourceType(i)

SchemaFollowsPrecedence ==
    /\ result.names = ProducedNames
    /\ Len(result.dtypes) = Len(ProducedNames)
    /\ \A i \in 1..Len(ProducedNames) : result.dtypes[i] = ExpectedType(i)

\* every entry of from_dicts' overrides names the column at its own position
DictsOverridesByName ==
    \A i \in 1..Len(call.args.schema_overrides) :
        /\ i <= Len(AdapterNames)
        /\ call.args.schema_overrides[i].name = AdapterNames[i]

\* C5 as stated: every successful construction has exactly the adapter-produced
\* names in their order, each column typed override > declared > inferred; an
\* override changes neither the order nor the set of columns.
C5_Original ==
    (TableCall /\ result.kind = "Table") => SchemaFollowsPrecedence

\* C5 as amended: the same, for every successful construction except those of
\* from_dicts in which an override entry does not name the column at its own
\* position.
C5_SchemaPrecedence ==
    (/\ TableCall
     /\ result.kind = "Table"
     /\ call.fn = "from_dicts" => DictsOverridesByName)
    => SchemaFollowsPrecedence

\* from_dict with the declared schema (x: Int32, y) and the override x: Utf8:
\* x is Utf8, y keeps the type inferred from its values
C5_Witness ==
    /\ Called("from_dict")
    /\ call.args.columns = Some(<<Field("x", "Int32"), Field("y", "None")>>)
    /\ call.args.schema_overrides = <<Field("x", "Utf8")>>
    /\ result.kind = "Table"
    /\ result.names = <<"x", "y">>
    /\ result.dtypes = <<"Utf8", "Float64">>

\* a supplied DeclaredSchema whose length is not the number of columns present
LengthMismatch ==
    ~IsNone(CallDeclared) /\ Len(Get(CallDeclared)) # ColumnCount

\* the names an override key is matched against
ResolvedNames == IF ColumnCall THEN <<result.name>> ELSE ProducedNames

UnmatchedKeys ==
    {call.args.schema_overrides[i].name :
        i \in UnknownKeys(call.args.schema_overrides, ResolvedNames)}

ColumnsPresent == IF ColumnCall THEN 1 ELSE ColumnCount

MatchesNeitherDimension ==
    /\ TwoDimCall
    /\ IsNone(call.args.orient)
    /\ ~IsNone(call.args.columns)
    /\ DeclaredCount # Dim0
    /\ DeclaredCount # Dim1

RawCall ==
    pc = "returned" /\ call.fn \in {"from_dict", "from_dicts", "from_records"}

\* the leading values of a column that the scan limit of the call lets through
Window(vals) ==
    SubSeq(vals, 1, IF IsNone(CallScanLimit) THEN Len(vals)
                    ELSE Min(Get(CallScanLimit), Len(vals)))

AllNull(vals) == \A j \in 1..Len(vals) : vals[j].k = "null"

NonNull(v) == v.k # "null"

\* the column inference failed on
FailedColumn == AdapterValues(result.col)

\* C8: a raw column that is empty or whose scanned values are all null is
\* inferred as the Unknown placeholder and inference does not fail on it; in
\* the resolved schema it has the override type if there is one for it, else
\* the declared type if there is one, else Unknown.
C8_NullColumnInference ==
    /\ (RawCall /\ result.kind = "Table") =>
          \A i \in 1..Len(result.columns) :
              AllNull(Window(result.columns[i])) =>
                  /\ result.inferred[i] \in {"Unknown", "Bypassed"}
                  /\ result.dtypes[i] =
                        IF TypeOf(call.args.schema_overrides, result.names[i]) # "None"
                        THEN TypeOf(call.args.schema_overrides, result.names[i])
                        ELSE IF DeclaredType(i) # "None" THEN DeclaredType(i)
                        ELSE "Unknown"
    /\ (RawCall /\ FailedWith("SchemaInferenceError")) =>
          /\ result.col <= ColumnCount
          /\ ~AllNull(Window(FailedColumn))

\* rows {a: null} and {a: <not null>} of which only the first is scanned:
\* column a is Unknown
C8_Witness ==
    /\ Called("from_dicts")
    /\ call.args.infer_schema_length = Some(1)
    /\ call.args.schema_overrides = <<>>
    /\ Len(call.args.dicts) = 2
    /\ result.kind = "Table"
    /\ result.names = <<"a">>
    /\ AllNull(Window(result.columns[1]))
    /\ ~AllNull(result.columns[1])
    /\ result.dtypes = <<"Unknown">>

\* longest continuation tried behind a scan window
MaxTail == 1

Tails == SeqsUpTo(RowValues, MaxTail)

\* every column that agrees with vals on the first infer_schema_length values
\* (same window, any continuation) has the inference outcome `outcome`
WindowDecides(vals, outcome) ==
    IF IsNone(CallScanLimit) THEN InferType(vals, None) = outcome
    ELSE Len(vals) >= Get(CallScanLimit) =>
            \A t \in Tails :
                InferType(Window(vals) \o t, CallScanLimit) = outcome

\* C9: inference reads at most the first infer_schema_length values of a
\* column (all of them when the limit is None): any column with the same
\* leading values gets the same type, or the same failure, and the nulls in
\* the window do not take part in the choice of the type.
C9_ScanWindow ==
    /\ (/\ Called("from_dicts") \/ Called("from_records")
        /\ result.kind = "Table") =>
          \A i \in 1..Len(result.columns) :
              result.inferred[i] # "Bypassed" =>
                  /\ WindowDecides(result.columns[i], Inferred(result.inferred[i]))
                  /\ InferType(SelectSeq(Window(result.columns[i]), NonNull), None)
                        = Inferred(result.inferred[i])
    /\ (/\ Called("from_dicts") \/ Called("from_records")
        /\ FailedWith("SchemaInferenceError")) =>
          /\ result.row <= Len(Window(FailedColumn))
          /\ WindowDecides(FailedColumn, InferenceFailure(result.row))

\* two sequences read as rows, the second holding text, one value scanned per
\* column: every column is Int64
C9_Witness ==
    /\ Called("from_records")
    /\ call.args.infer_schema_length = Some(1)
    /\ call.args.schema_overrides = <<>>
    /\ result.kind = "Table"
    /\ result.orient = "row"
    /\ Dim0 = 2
    /\ \A i \in 1..Len(result.columns) :
          /\ result.columns[i][2].k = "str"
          /\ result.dtypes[i] = "Int64"

====
